---- MODULE Spec2Model ----
(***************************************************************************)
(* Model of the Keyboard-Warrior combat core.                              *)
(*                                                                         *)
(* PacingController (src/src/game/pacing.rs): tension, combats_since_rest, *)
(* phase and the pending beat queue, one action per public method.  The    *)
(* thread-local random generator is a nondeterministic choice.             *)
(*                                                                         *)
(* TypingImpact (src/src/game/typing_impact.rs): the attack sequence being *)
(* typed, the pending damage and the attack type, one action per public    *)
(* method.  f32 values are exact rationals <<numerator, denominator>>;     *)
(* Instants are clock ticks counted from current_attack.started_at.        *)
(*                                                                         *)
(* CombatMomentum and PlayerMomentum (src/src/game/dialogue_engine.rs):    *)
(* the two pure classifiers, applied to bounded inputs.                    *)
(*                                                                         *)
(* EnemyVisualState (src/src/game/enemy_visuals.rs): base art, wounds,     *)
(* particles, total severity, posture and the render cache, one action per *)
(* public method.  A String is a sequence of characters and String::len    *)
(* the sum of their UTF-8 lengths; positions are (row, col) from 0.        *)
(*                                                                         *)
(* LoreWords::random_sentence (src/src/data/lore_words.rs): the pool a     *)
(* sentence is drawn from.                                                 *)
(*                                                                         *)
(* PlayerAvatar (src/src/game/player_avatar.rs): animation state, timer    *)
(* and health, one action per public method that changes them.             *)
(***************************************************************************)
EXTENDS Integers, Sequences, FiniteSets, TLC

VARIABLES
    tension,              \* PacingController.tension (i32)
    combats_since_rest,   \* PacingController.combats_since_rest (i32)
    phase,                \* PacingController.phase
    pending_beats,        \* PacingController.pending_beats (Vec, push/pop at the end)
    lastOp,               \* the latest call on the controller: method, arguments, returned value
    current_attack,       \* TypingImpact.current_attack: word, typed, keystrokes (started_at is tick 0)
    clock,                \* Instant::now() - current_attack.started_at, in ticks
    pending_damage,       \* TypingImpact.pending_damage (f32)
    impact_intensity,     \* TypingImpact.impact_intensity (f32)
    attack_type,          \* TypingImpact.attack_type
    last_correct,         \* TypingImpact.last_correct
    typingOp,             \* the latest call on the TypingImpact: method and returned value
    since_start           \* history: whether start_word was ever called, the number of
                          \* on_keystroke calls since the latest one (or since construction)
                          \* and the sum of the damage_this_stroke they returned
    ,
    momentum,             \* the latest call of a momentum classifier: function, arguments, result
    sentence,             \* the latest call of LoreWords::random_sentence: arguments, result
    base_art,             \* EnemyVisualState.base_art (Vec<String>)
    wounds,               \* EnemyVisualState.damage_overlays.wounds (Vec<WoundMarker>)
    particles,            \* EnemyVisualState.damage_overlays.particles (Vec<DamageParticle>)
    total_severity,       \* EnemyVisualState.damage_overlays.total_severity (u32)
    posture,              \* EnemyVisualState.posture
    cached_render,        \* EnemyVisualState.cached_render (Option<Vec<String>>)
    visualOp              \* the latest call on the EnemyVisualState: method, arguments,
                          \* returned value, the fields before it and the call before it
    ,
    avatar_state,         \* PlayerAvatar.state
    animation_timer,      \* PlayerAvatar.animation_timer (u32, ms remaining)
    avatar_health_percent, \* PlayerAvatar.health_percent (u32)
    avatarOp              \* the latest call on the PlayerAvatar: method, argument, and
                          \* the number of animation triggers so far

pacingVars == <<tension, combats_since_rest, phase, pending_beats, lastOp>>
typingVars == <<current_attack, clock, pending_damage, impact_intensity, attack_type,
                last_correct, typingOp, since_start>>
dialogueVars == <<momentum, sentence>>
enemyVars == <<base_art, wounds, particles, total_severity, posture, cached_render, visualOp>>
avatarVars == <<avatar_state, animation_timer, avatar_health_percent, avatarOp>>
vars == <<pacingVars, typingVars, dialogueVars, enemyVars, avatarVars>>

(***************************************************************************)
(* Bounds of the exploration.                                              *)
(***************************************************************************)
\* on_combat_end(defeat) and on_room_enter("combat") add to tension without
\* a cap; calls that would take it above MaxTension are not explored.
MaxTension == 110
\* Defeats increment combats_since_rest without resetting it.
MaxCombats == 4
\* Longest pending beat queue explored.
MaxBeats == 2
\* Floors passed to on_room_enter (the catch-all band of queue_atmospheric).
Floors == {11}
\* Room types passed to on_room_enter.
RoomTypes == {"combat", "treasure"}

(***************************************************************************)
(* PacingPhase and PacingBeat.                                             *)
(***************************************************************************)
PacingPhase == {"Exploration", "RisingTension", "Confrontation", "Resolution", "Interlude"}

\* Option::None of pop_beat.
None == "None"

\* The four beats queue_breather chooses from (variant:text).
BreatherBeats ==
    { "InternalThought:pause", "InternalThought:hands",
      "InternalThought:how_many", "Environmental:dust_settles" }

\* The beat on_rest pushes.
RestBeat == "InternalThought:rest"

\* The pool queue_atmospheric chooses from, by floor band.
AtmosphericPool(floor) ==
    CASE floor \in 1..2  -> { "Atmosphere:dust_motes", "Environmental:banners", "OminousHint:scrapes" }
      [] floor \in 3..4  -> { "Atmosphere:water_drips", "Environmental:books", "MemoryFlash:archives" }
      [] floor \in 5..6  -> { "Atmosphere:rot", "Environmental:flowers", "OminousHint:undergrowth" }
      [] floor \in 7..8  -> { "Atmosphere:gears", "Environmental:construct", "MemoryFlash:clockwork" }
      [] floor \in 9..10 -> { "Atmosphere:reality", "OminousHint:void", "MemoryFlash:void" }
      [] OTHER           -> { "Atmosphere:sundering", "MemoryFlash:breach" }

\* Beats a caller hands to queue_beat.
PacingBeat == BreatherBeats \cup {RestBeat} \cup UNION { AtmosphericPool(f) : f \in Floors }

Min(a, b) == IF a < b THEN a ELSE b
Max(a, b) == IF a > b THEN a ELSE b

Call(op, arg, ret) == [op |-> op, arg |-> arg, ret |-> ret]

(***************************************************************************)
(* Rationals: <<n, d>> with d > 0, in lowest terms.                        *)
(***************************************************************************)
Abs(a) == IF a < 0 THEN -a ELSE a

RECURSIVE Gcd(_, _)
Gcd(a, b) == IF b = 0 THEN a ELSE Gcd(b, a % b)

R(n, d) ==
    LET g == Gcd(Abs(n), d)
    IN  IF n = 0 THEN <<0, 1>> ELSE <<n \div g, d \div g>>

RInt(i) == <<i, 1>>
RAdd(x, y) == R(x[1] * y[2] + y[1] * x[2], x[2] * y[2])
RSub(x, y) == R(x[1] * y[2] - y[1] * x[2], x[2] * y[2])
RMul(x, y) == R(x[1] * y[1], x[2] * y[2])
RLt(x, y) == x[1] * y[2] < y[1] * x[2]
RGe(x, y) == ~RLt(x, y)
RMin(x, y) == IF RLt(y, x) THEN y ELSE x
RMax(x, y) == IF RLt(x, y) THEN y ELSE x
\* f32::round (half away from zero) followed by `as i32`
RRound(x) ==
    IF x[1] >= 0 THEN (2 * x[1] + x[2]) \div (2 * x[2])
    ELSE -((2 * (-x[1]) + x[2]) \div (2 * x[2]))

(***************************************************************************)
(* TypingImpact::new (AttackSequence::default: empty word, typed and       *)
(* keystrokes, started_at = now).  quality_multiplier is set to 1.0 here   *)
(* and never read or written again; it is left out.                        *)
(***************************************************************************)
NoResult == [unit |-> TRUE]

TypingNew ==
    /\ current_attack = [word |-> "", typed |-> << >>, keystrokes |-> << >>]
    /\ clock = 0
    /\ pending_damage = RInt(0)
    /\ impact_intensity = RInt(0)
    /\ attack_type = "Standard"
    /\ last_correct = TRUE
    /\ typingOp = [op |-> "new", ret |-> NoResult]
    /\ since_start = [started |-> FALSE, calls |-> 0, damage |-> RInt(0)]

(***************************************************************************)
(* No momentum classifier and no sentence draw has been called yet.        *)
(***************************************************************************)
DialogueNew ==
    /\ momentum = [fn |-> "none"]
    /\ sentence = [fn |-> "none"]

(***************************************************************************)
(* EnemyVisualState::default: new() over the three-row placeholder art,    *)
(* no overlays, posture Confident, nothing cached.  current_frame is set   *)
(* to 0 here and never read or written again; it is left out.              *)
(***************************************************************************)
DefaultArt ==
    << <<" ", " ", " ", "?", " ", " ", " ">>,
       <<" ", " ", "?", "?", "?", " ", " ">>,
       <<" ", " ", " ", "?", " ", " ", " ">> >>

\* Option::None of cached_render
NoRender == [some |-> FALSE, art |-> << >>]

EnemyNew ==
    /\ base_art = DefaultArt
    /\ wounds = << >>
    /\ particles = << >>
    /\ total_severity = 0
    /\ posture = "Confident"
    /\ cached_render = NoRender
    /\ visualOp = [op |-> "new", arg |-> NoResult, ret |-> NoResult,
                   before |-> [posture |-> "Confident", cached |-> FALSE,
                               total_severity |-> 0, wounds |-> 0, particles |-> 0],
                   prev |-> [op |-> "none", wounds |-> 0]]

(***************************************************************************)
(* PlayerAvatar::new.  class only selects the art get_art returns; it is   *)
(* left out.                                                               *)
(***************************************************************************)
AvatarNew ==
    /\ avatar_state = "Idle"
    /\ animation_timer = 0
    /\ avatar_health_percent = 100
    /\ avatarOp = [op |-> "new", arg |-> 0, timer_before |-> 0, triggers |-> 0]

(***************************************************************************)
(* PacingController::new                                                   *)
(***************************************************************************)
Init ==
    /\ tension = 0
    /\ combats_since_rest = 0
    /\ phase = "Exploration"
    /\ pending_beats = << >>
    /\ lastOp = Call("new", "", None)
    /\ TypingNew
    /\ DialogueNew
    /\ EnemyNew
    /\ AvatarNew

\* update_phase with the first bucket closed one early.
update_phase_early(t) ==
    CASE t \in 0..19  -> "Exploration"
      [] t \in 20..50 -> "RisingTension"
      [] OTHER        -> "Confrontation"

\* update_phase: the phase for a tension value.
update_phase(t) ==
    CASE t \in 0..20  -> "Exploration"
      [] t \in 21..50 -> "RisingTension"
      [] t \in 51..80 -> "Confrontation"
      [] OTHER        -> "Confrontation"

\* start_tension without the min(100).
start_tension_uncapped(t, is_boss) == t + (IF is_boss THEN 30 ELSE 15)

\* self.tension += if is_boss { 30 } else { 15 }; self.tension.min(100)
start_tension(t, is_boss) == Min(t + (IF is_boss THEN 30 ELSE 15), 100)

\* victory_tension that ignores was_boss.
victory_tension_flat(t, was_boss) == Max(t - 10, 0)

\* self.tension -= if was_boss { 20 } else { 10 }; self.tension.max(0)
victory_tension(t, was_boss) == Max(t - (IF was_boss THEN 20 ELSE 10), 0)

\* self.tension += 10 (no upper clamp)
defeat_tension(t) == t + 10

\* breather_due with a strict comparison.
breather_due_strict(c) == c > 3

\* if self.combats_since_rest >= 3
breather_due(c) == c >= 3

\* rest_tension without the max(0).
rest_tension_unfloored(t) == t - 30

\* (self.tension - 30).max(0)
rest_tension(t) == Max(t - 30, 0)

\* shop_tension without the max(0).
shop_tension_unfloored(t) == t - 10

\* (self.tension - 10).max(0)
shop_tension(t) == Max(t - 10, 0)

\* vec_pop taking the oldest item instead of the newest.
vec_pop_front(q) == [item |-> Head(q), rest |-> Tail(q)]

\* Vec::pop on a non-empty vector: the item returned and what stays
vec_pop(q) == [item |-> q[Len(q)], rest |-> SubSeq(q, 1, Len(q) - 1)]

BossArg(b) == IF b THEN "boss" ELSE "normal"
EndArg(v, b) == (IF v THEN "victory" ELSE "defeat") \o "," \o BossArg(b)

\* on_combat_start(is_boss)
on_combat_start(is_boss) ==
    /\ phase' = "Confrontation"
    /\ tension' = start_tension(tension, is_boss)
    /\ UNCHANGED <<combats_since_rest, pending_beats>>
    /\ lastOp' = Call("on_combat_start", BossArg(is_boss), None)

\* on_combat_end(victory, was_boss); in the breather branch rng picks any
\* one of the breather beats.
on_combat_end(victory, was_boss) ==
    LET c1 == combats_since_rest + 1
        breather == victory /\ breather_due(c1)
        t1 == IF victory
              THEN victory_tension(tension, was_boss)
              ELSE defeat_tension(tension)
    IN  /\ c1 <= MaxCombats
        /\ t1 <= MaxTension
        /\ tension' = t1
        \* queue_breather: push the beat, zero the counter, phase = Resolution
        /\ IF breather
           THEN \E beat \in BreatherBeats : pending_beats' = Append(pending_beats, beat)
           ELSE pending_beats' = pending_beats
        /\ Len(pending_beats') <= MaxBeats
        /\ combats_since_rest' = IF breather THEN 0 ELSE c1
        \* the trailing update_phase() overwrites whatever queue_breather set
        /\ phase' = update_phase(t1)
        /\ lastOp' = Call("on_combat_end", EndArg(victory, was_boss), None)

\* on_room_enter that may queue an atmospheric beat in any phase.
on_room_enter_any_phase(floor, room_type) ==
    /\ \/ pending_beats' = pending_beats
       \/ \E beat \in AtmosphericPool(floor) :
               pending_beats' = Append(pending_beats, beat)
    /\ Len(pending_beats') <= MaxBeats
    /\ tension' = IF room_type = "combat" THEN tension + 5 ELSE tension
    /\ tension' <= MaxTension
    /\ UNCHANGED <<combats_since_rest, phase>>
    /\ lastOp' = Call("on_room_enter", room_type, None)

\* on_room_enter(floor, room_type); in Exploration rng decides whether
\* (gen::<f32>() < 0.3) and which beat of the floor's pool is queued.
on_room_enter(floor, room_type) ==
    /\ IF phase = "Exploration"
       THEN \/ pending_beats' = pending_beats
            \/ \E beat \in AtmosphericPool(floor) :
                    pending_beats' = Append(pending_beats, beat)
       ELSE pending_beats' = pending_beats
    /\ Len(pending_beats') <= MaxBeats
    /\ tension' = IF room_type = "combat" THEN tension + 5 ELSE tension
    /\ tension' <= MaxTension
    /\ UNCHANGED <<combats_since_rest, phase>>
    /\ lastOp' = Call("on_room_enter", room_type, None)

\* on_rest()
on_rest ==
    /\ Len(pending_beats) < MaxBeats
    /\ combats_since_rest' = 0
    /\ tension' = rest_tension(tension)
    /\ phase' = "Resolution"
    /\ pending_beats' = Append(pending_beats, RestBeat)
    /\ lastOp' = Call("on_rest", "", None)

\* on_shop_enter()
on_shop_enter ==
    /\ phase' = "Interlude"
    /\ tension' = shop_tension(tension)
    /\ UNCHANGED <<combats_since_rest, pending_beats>>
    /\ lastOp' = Call("on_shop_enter", "", None)

\* pop_beat(): Vec::pop
pop_beat ==
    /\ IF pending_beats = << >>
       THEN /\ pending_beats' = pending_beats
            /\ lastOp' = Call("pop_beat", "", None)
       ELSE /\ pending_beats' = vec_pop(pending_beats).rest
            /\ lastOp' = Call("pop_beat", "", vec_pop(pending_beats).item)
    /\ UNCHANGED <<tension, combats_since_rest, phase>>

\* queue_beat(beat): Vec::push
queue_beat(beat) ==
    /\ Len(pending_beats) < MaxBeats
    /\ pending_beats' = Append(pending_beats, beat)
    /\ UNCHANGED <<tension, combats_since_rest, phase>>
    /\ lastOp' = Call("queue_beat", beat, None)

\* reset that forgets to clear the queue.
reset_keeps_queue ==
    /\ tension' = 0
    /\ combats_since_rest' = 0
    /\ phase' = "Exploration"
    /\ pending_beats' = pending_beats
    /\ lastOp' = Call("reset", "", None)

\* reset()
reset ==
    /\ tension' = 0
    /\ combats_since_rest' = 0
    /\ phase' = "Exploration"
    /\ pending_beats' = << >>
    /\ lastOp' = Call("reset", "", None)

\* The controller's calls; the TypingImpact is a separate object they leave alone.
CombatStart ==
    /\ \E is_boss \in BOOLEAN : on_combat_start(is_boss)
    /\ UNCHANGED <<typingVars, dialogueVars, enemyVars, avatarVars>>
CombatEnd ==
    /\ \E victory, was_boss \in BOOLEAN : on_combat_end(victory, was_boss)
    /\ UNCHANGED <<typingVars, dialogueVars, enemyVars, avatarVars>>
RoomEnter ==
    /\ \E floor \in Floors, room_type \in RoomTypes : on_room_enter(floor, room_type)
    /\ UNCHANGED <<typingVars, dialogueVars, enemyVars, avatarVars>>
QueueBeat ==
    /\ \E beat \in PacingBeat : queue_beat(beat)
    /\ UNCHANGED <<typingVars, dialogueVars, enemyVars, avatarVars>>
Rest == on_rest /\ UNCHANGED <<typingVars, dialogueVars, enemyVars, avatarVars>>
ShopEnter == on_shop_enter /\ UNCHANGED <<typingVars, dialogueVars, enemyVars, avatarVars>>
PopBeat == pop_beat /\ UNCHANGED <<typingVars, dialogueVars, enemyVars, avatarVars>>
Reset == reset /\ UNCHANGED <<typingVars, dialogueVars, enemyVars, avatarVars>>

Next ==
    \/ CombatStart
    \/ CombatEnd
    \/ RoomEnter
    \/ Rest
    \/ ShopEnter
    \/ PopBeat
    \/ QueueBeat
    \/ Reset

Spec == Init /\ [][Next]_vars

TypeOK ==
    /\ tension \in 0..MaxTension
    /\ combats_since_rest \in 0..MaxCombats
    /\ phase \in PacingPhase
    /\ Len(pending_beats) <= MaxBeats

(***************************************************************************)
(* The calls named by the spec's tension property alone: on_combat_start,  *)
(* on_combat_end, on_rest, on_shop_enter from a new controller.            *)
(***************************************************************************)
NextCombatRest ==
    \/ CombatStart
    \/ CombatEnd
    \/ Rest
    \/ ShopEnter

SpecCombatRest == Init /\ [][NextCombatRest]_vars

(***************************************************************************)
(* on_combat_end applied to a controller whose tension (a pub field) holds *)
(* any value of the documented range, so that every bucket edge of         *)
(* update_phase is exercised.                                              *)
(***************************************************************************)
InitAnyTension ==
    /\ tension \in 0..100
    /\ combats_since_rest = 0
    /\ phase = "Exploration"
    /\ pending_beats = << >>
    /\ lastOp = Call("new", "", None)
    /\ TypingNew
    /\ DialogueNew
    /\ EnemyNew
    /\ AvatarNew

NextCombatEnd == CombatEnd

SpecAnyTension == InitAnyTension /\ [][NextCombatEnd]_vars

(***************************************************************************)
(* TypingImpact.                                                           *)
(***************************************************************************)
\* Clock ticks per millisecond: Instants are finer than the milliseconds
\* Duration::as_millis truncates to.
TicksPerMs == 2
\* Most on_keystroke calls explored per word.
MaxKeys == 3
\* Most on_keystroke calls explored per word when only timing varies.
MaxRhythmKeys == 5
\* Latest clock reading explored, in ticks since started_at.
MaxClock == 3600
\* Highest words-per-minute handed to determine_attack_type on its own.
MaxWpm == 120
\* Words handed to start_word.
Words == {"test"}
\* Characters typed: one of one UTF-8 byte, one of two.
Chars == {"t", "e'"}
\* Ticks between a call and the previous one.
KeyDelays == {1, 300}
CompleteDelays == {0, 3000}
\* 0.5, 71, 130, 150, 400 and 500 ms
RhythmDelays == {1, 142, 260, 300, 800, 1000}
\* base_damage handed to complete_word.
BaseDamages == {0, 10}

AttackType == {"Deliberate", "Flurry", "Precision", "Frantic", "Standard"}

\* char::len_utf8, what String::push adds to String::len
Utf8Len(ch) == IF ch = "t" THEN 1 ELSE 2

RECURSIVE StringLen(_)
\* String::len of typed: bytes, not characters
StringLen(typed) ==
    IF typed = << >> THEN 0 ELSE Utf8Len(Head(typed)) + StringLen(Tail(typed))

RECURSIVE SumIntervals(_, _)
SumIntervals(ks, idx) ==
    IF idx = {} THEN 0
    ELSE LET i == CHOOSE j \in idx : TRUE
         IN  ks[i].interval_ms + SumIntervals(ks, idx \ {i})

\* calculate_rhythm_bonus averaging the three keystrokes before the current one.
calculate_rhythm_bonus_previous(ks, current_interval) ==
    LET n == Len(ks) - 1
        recent == { i \in Max(1, n - 2)..n : ks[i].interval_ms > 0 }
        avg == SumIntervals(ks, recent) \div Cardinality(recent)
        variance == Abs(current_interval - avg)
    IN  IF Cardinality(recent) < 2 \/ current_interval = 0 THEN RInt(1)
        ELSE IF variance < 30 THEN R(3, 2)
        ELSE IF variance < 60 THEN R(5, 4)
        ELSE IF variance < 100 THEN R(11, 10)
        ELSE RInt(1)

\* calculate_rhythm_bonus; ks already holds the current keystroke
calculate_rhythm_bonus(ks, current_interval) ==
    LET n == Len(ks)
        \* .iter().rev().take(3).filter(|k| k.interval_ms > 0)
        recent == { i \in Max(1, n - 2)..n : ks[i].interval_ms > 0 }
        avg == SumIntervals(ks, recent) \div Cardinality(recent)
        variance == Abs(current_interval - avg)
    IN  IF Cardinality(recent) < 2 \/ current_interval = 0 THEN RInt(1)
        ELSE IF variance < 30 THEN R(3, 2)
        ELSE IF variance < 60 THEN R(5, 4)
        ELSE IF variance < 100 THEN R(11, 10)
        ELSE RInt(1)

\* speed_mult without the min(2.0).
speed_mult_uncapped(interval_ms) ==
    IF interval_ms > 0
    THEN RMax(R(200, interval_ms), R(1, 2))
    ELSE RInt(1)

\* speed_mult of calculate_keystroke_impact
speed_mult(interval_ms) ==
    IF interval_ms > 0
    THEN RMax(RMin(R(200, interval_ms), RInt(2)), R(1, 2))
    ELSE RInt(1)

\* calculate_keystroke_impact without the early return for a wrong key.
calculate_keystroke_impact_unchecked(ks, correct, interval_ms) ==
    LET base == R(3, 2)
        speed == speed_mult(interval_ms)
        rhythm_mult == calculate_rhythm_bonus(ks, interval_ms)
        damage == RMul(RMul(base, speed), rhythm_mult)
    IN  [damage_this_stroke |-> damage,
         visual_intensity |-> RMin(RMul(speed, R(1, 2)), RInt(1)),
         sound_pitch |-> RAdd(R(8, 10), RMul(speed, R(2, 10))),
         screen_shake |-> RMul(damage, R(3, 100)),
         rhythm_bonus |-> RSub(rhythm_mult, RInt(1)),
         correct |-> correct]

\* calculate_keystroke_impact
calculate_keystroke_impact(ks, correct, interval_ms) ==
    IF ~correct
    THEN [damage_this_stroke |-> RInt(0),
          visual_intensity |-> R(8, 10),
          sound_pitch |-> R(1, 2),
          screen_shake |-> R(1, 10),
          rhythm_bonus |-> RInt(0),
          correct |-> FALSE]
    ELSE LET base == R(3, 2)
             speed == speed_mult(interval_ms)
             rhythm_mult == calculate_rhythm_bonus(ks, interval_ms)
             damage == RMul(RMul(base, speed), rhythm_mult)
         IN  [damage_this_stroke |-> damage,
              visual_intensity |-> RMin(RMul(speed, R(1, 2)), RInt(1)),
              sound_pitch |-> RAdd(R(8, 10), RMul(speed, R(2, 10))),
              screen_shake |-> RMul(damage, R(3, 100)),
              rhythm_bonus |-> RSub(rhythm_mult, RInt(1)),
              correct |-> TRUE]

\* AttackType::damage_multiplier
damage_multiplier(t) ==
    CASE t = "Precision"  -> R(15, 10)
      [] t = "Flurry"     -> R(13, 10)
      [] t = "Deliberate" -> R(12, 10)
      [] t = "Frantic"    -> R(9, 10)
      [] t = "Standard"   -> RInt(1)

\* determine_attack_type with the Flurry arm tried before the Precision arm.
determine_attack_type_flurry_first(wpm, accuracy) ==
    IF RGe(accuracy, R(95, 100)) /\ RGe(wpm, RInt(100)) THEN "Flurry"
    ELSE IF RGe(accuracy, R(99, 100)) /\ RGe(wpm, RInt(80)) THEN "Precision"
    ELSE IF RLt(wpm, RInt(40)) /\ RGe(accuracy, R(95, 100)) THEN "Deliberate"
    ELSE IF RGe(wpm, RInt(70)) /\ RLt(accuracy, R(85, 100)) THEN "Frantic"
    ELSE "Standard"

\* determine_attack_type: first matching arm
determine_attack_type(wpm, accuracy) ==
    IF RGe(accuracy, R(99, 100)) /\ RGe(wpm, RInt(80)) THEN "Precision"
    ELSE IF RGe(accuracy, R(95, 100)) /\ RGe(wpm, RInt(100)) THEN "Flurry"
    ELSE IF RLt(wpm, RInt(40)) /\ RGe(accuracy, R(95, 100)) THEN "Deliberate"
    ELSE IF RGe(wpm, RInt(70)) /\ RLt(accuracy, R(85, 100)) THEN "Frantic"
    ELSE "Standard"

\* generate_attack_message: the template used and the number it prints
generate_attack_message(type, damage, perfect) ==
    [template |-> IF perfect THEN "{icon} PERFECT {name}! {} damage!"
                  ELSE CASE type \in {"Precision", "Flurry"} -> "{icon} {name}! {} damage!"
                         [] type = "Deliberate" -> "{icon} {name}. {} damage."
                         [] type = "Frantic" -> "{icon} {name}! {} damage."
                         [] type = "Standard" -> "You deal {} damage.",
     attack_type |-> type,
     damage |-> damage]

\* floor_damage without the max(1).
floor_damage_none(d) == d

\* final_damage.max(1)
floor_damage(d) == Max(d, 1)

\* self.pending_damage = instead of +=
accumulate_overwrite(pending, damage) == damage

\* self.pending_damage += impact.damage_this_stroke
accumulate(pending, damage) == RAdd(pending, damage)

\* start_word that leaves pending_damage as it is.
start_word_keeps_pending(word) ==
    /\ current_attack' = [word |-> word, typed |-> << >>, keystrokes |-> << >>]
    /\ clock' = 0
    /\ pending_damage' = pending_damage
    /\ impact_intensity' = RInt(0)
    /\ attack_type' = "Standard"
    /\ UNCHANGED last_correct
    /\ typingOp' = [op |-> "start_word", ret |-> NoResult]
    /\ since_start' = [started |-> TRUE, calls |-> 0, damage |-> RInt(0)]

\* start_word(word)
start_word(word) ==
    /\ current_attack' = [word |-> word, typed |-> << >>, keystrokes |-> << >>]
    /\ clock' = 0
    /\ pending_damage' = RInt(0)
    /\ impact_intensity' = RInt(0)
    /\ attack_type' = "Standard"
    /\ UNCHANGED last_correct
    /\ typingOp' = [op |-> "start_word", ret |-> NoResult]
    /\ since_start' = [started |-> TRUE, calls |-> 0, damage |-> RInt(0)]

\* variant: the interval is measured from started_at
on_keystroke_since_start(ch, correct, dt) ==
    LET now == clock + dt
        ks == current_attack.keystrokes
        interval == now \div TicksPerMs
        ks1 == Append(ks, [char |-> ch, correct |-> correct,
                           timestamp |-> now, interval_ms |-> interval])
        impact == calculate_keystroke_impact(ks1, correct, interval)
    IN  /\ clock' = now
        /\ current_attack' = [current_attack EXCEPT
                                !.keystrokes = ks1,
                                !.typed = Append(@, ch)]
        /\ last_correct' = correct
        /\ pending_damage' = accumulate(pending_damage, impact.damage_this_stroke)
        /\ impact_intensity' = impact.visual_intensity
        /\ UNCHANGED attack_type
        /\ typingOp' = [op |-> "on_keystroke", ret |-> impact]
        /\ since_start' = [since_start EXCEPT
                              !.calls = @ + 1,
                              !.damage = RAdd(@, impact.damage_this_stroke)]

\* on_keystroke(ch, correct), called dt ticks after the previous call
on_keystroke(ch, correct, dt) ==
    LET now == clock + dt
        ks == current_attack.keystrokes
        \* now.duration_since(k.timestamp).as_millis() as u32, or 0
        interval == IF ks = << >> THEN 0
                    ELSE (now - ks[Len(ks)].timestamp) \div TicksPerMs
        ks1 == Append(ks, [char |-> ch, correct |-> correct,
                           timestamp |-> now, interval_ms |-> interval])
        impact == calculate_keystroke_impact(ks1, correct, interval)
    IN  /\ clock' = now
        /\ current_attack' = [current_attack EXCEPT
                                !.keystrokes = ks1,
                                !.typed = Append(@, ch)]
        /\ last_correct' = correct
        /\ pending_damage' = accumulate(pending_damage, impact.damage_this_stroke)
        /\ impact_intensity' = impact.visual_intensity
        /\ UNCHANGED attack_type
        /\ typingOp' = [op |-> "on_keystroke", ret |-> impact]
        /\ since_start' = [since_start EXCEPT
                              !.calls = @ + 1,
                              !.damage = RAdd(@, impact.damage_this_stroke)]

\* complete_word(base_damage), called dt ticks after the previous call
complete_word(base_damage, dt) ==
    LET now == clock + dt
        \* started_at.elapsed(): started_at is tick 0
        elapsed == now
        char_count == StringLen(current_attack.typed)
        ks == current_attack.keystrokes
        correct_count == Cardinality({ i \in 1..Len(ks) : ks[i].correct })
        accuracy == IF char_count > 0 THEN R(correct_count, char_count) ELSE RInt(1)
        \* (char_count / 5) / (elapsed.as_secs_f32() / 60)
        wpm == IF elapsed > 0
               THEN R(12 * 1000 * TicksPerMs * char_count, elapsed)
               ELSE RInt(0)
        type == determine_attack_type(wpm, accuracy)
        type_mult == damage_multiplier(type)
        accuracy_mult == RAdd(R(1, 2), RMul(accuracy, R(1, 2)))
        final_damage == RRound(RMul(RMul(RAdd(RInt(base_damage), pending_damage),
                                         type_mult), accuracy_mult))
        perfect == RGe(accuracy, R(99, 100))
    IN  /\ clock' = now
        /\ attack_type' = type
        /\ UNCHANGED <<current_attack, pending_damage, impact_intensity,
                       last_correct, since_start>>
        /\ typingOp' = [op |-> "complete_word",
                        ret |-> [damage |-> floor_damage(final_damage),
                                 attack_type |-> type,
                                 wpm |-> wpm,
                                 accuracy |-> accuracy,
                                 perfect |-> perfect,
                                 message |-> generate_attack_message(type, final_damage, perfect)],
                        base_damage |-> base_damage]

\* TypingImpact::reset: *self = Self::new()
typing_reset ==
    /\ current_attack' = [word |-> "", typed |-> << >>, keystrokes |-> << >>]
    /\ clock' = 0
    /\ pending_damage' = RInt(0)
    /\ impact_intensity' = RInt(0)
    /\ attack_type' = "Standard"
    /\ last_correct' = TRUE
    /\ typingOp' = [op |-> "reset", ret |-> NoResult]
    /\ UNCHANGED since_start

\* The TypingImpact's calls; the pacing controller is a separate object.
StartWord ==
    /\ \E word \in Words : start_word(word)
    /\ UNCHANGED <<pacingVars, dialogueVars, enemyVars, avatarVars>>
Keystroke ==
    /\ since_start.calls < MaxKeys
    /\ \E ch \in Chars, correct \in BOOLEAN, dt \in KeyDelays :
          clock + dt <= MaxClock /\ on_keystroke(ch, correct, dt)
    /\ UNCHANGED <<pacingVars, dialogueVars, enemyVars, avatarVars>>
CompleteWord ==
    /\ \E base_damage \in BaseDamages, dt \in CompleteDelays :
          clock + dt <= MaxClock /\ complete_word(base_damage, dt)
    /\ UNCHANGED <<pacingVars, dialogueVars, enemyVars, avatarVars>>
TypingReset == typing_reset /\ UNCHANGED <<pacingVars, dialogueVars, enemyVars, avatarVars>>

NextTyping ==
    \/ StartWord
    \/ Keystroke
    \/ CompleteWord
    \/ TypingReset

SpecTyping == Init /\ [][NextTyping]_vars

\* Words typed without a mistake, the timing of the keystrokes varying.
RhythmKeystroke ==
    /\ since_start.calls < MaxRhythmKeys
    /\ \E dt \in RhythmDelays : on_keystroke("t", TRUE, dt)
    /\ UNCHANGED <<pacingVars, dialogueVars, enemyVars, avatarVars>>

NextRhythm ==
    \/ StartWord
    \/ RhythmKeystroke

SpecRhythm == Init /\ [][NextRhythm]_vars

\* determine_attack_type applied once to a words-per-minute value (in
\* halves up to MaxWpm) and an accuracy (in hundredths).
classify(wpm, accuracy) ==
    /\ attack_type' = determine_attack_type(wpm, accuracy)
    /\ typingOp' = [op |-> "determine_attack_type",
                    ret |-> [wpm |-> wpm, accuracy |-> accuracy,
                             attack_type |-> attack_type']]
    /\ UNCHANGED <<current_attack, clock, pending_damage, impact_intensity,
                   last_correct, since_start>>

Classify ==
    /\ typingOp.op = "new"
    /\ \E w \in 0..(2 * MaxWpm), a \in 0..100 : classify(R(w, 2), R(a, 100))
    /\ UNCHANGED <<pacingVars, dialogueVars, enemyVars, avatarVars>>

NextClassify == Classify

SpecClassify == Init /\ [][NextClassify]_vars

\* Words typed and completed, and determine_attack_type applied on its own
\* to the speeds and accuracies a short word does not reach.
NextPerfect ==
    \/ StartWord
    \/ Keystroke
    \/ CompleteWord
    \/ TypingReset
    \/ Classify

SpecPerfect == Init /\ [][NextPerfect]_vars

(***************************************************************************)
(* Properties.                                                             *)
(***************************************************************************)
Last(q) == q[Len(q)]
WasVictory(call) == call.arg \in {"victory,boss", "victory,normal"}
WasBoss(call) == call.arg \in {"victory,boss", "defeat,boss", "boss"}
\* the on_combat_end step takes the breather branch
BreatherStep == WasVictory(lastOp') /\ combats_since_rest + 1 >= 3

\* C1: under any interleaving of on_combat_start, on_combat_end, on_rest and
\* on_shop_enter from a new controller, tension is within [0,100].
C1_TensionInRange == tension \in 0..100

\* C2: tension stays within [0,100] at all times, in particular an
\* on_room_enter call made with tension within [0,100] leaves it there.
C2_RoomEnterKeepsRange ==
    [][(lastOp'.op = "on_room_enter" /\ tension \in 0..100) => tension' \in 0..100]_vars

\* C3: pop_beat on a non-empty queue removes and returns the most recently
\* enqueued beat (so the queue before the pop is the queue after it with the
\* returned beat appended, and a pop right after queue_beat(b) returns b);
\* on an empty queue it returns nothing and changes nothing.
C3_PopIsLifo ==
    [][lastOp'.op = "pop_beat" =>
        /\ UNCHANGED <<tension, combats_since_rest, phase>>
        /\ IF pending_beats = << >>
           THEN lastOp'.ret = None /\ pending_beats' = << >>
           ELSE /\ lastOp'.ret # None
                /\ pending_beats = Append(pending_beats', lastOp'.ret)
                /\ (lastOp.op = "queue_beat" => lastOp'.ret = lastOp.arg)]_vars

\* C3 witness: B was queued on top of a different beat A and a pop returned
\* B, leaving A pending.
C3_Witness ==
    /\ lastOp.op = "pop_beat"
    /\ lastOp.ret # None
    /\ Len(pending_beats) = 1
    /\ pending_beats[1] # lastOp.ret

\* C4: an on_combat_end(victory) that brings combats_since_rest to 3 or more
\* enqueues exactly one breather beat and zeroes the counter; a victory below
\* 3 and any defeat enqueue nothing.
C4_BreatherEveryThirdVictory ==
    [][lastOp'.op = "on_combat_end" =>
        IF BreatherStep
        THEN /\ \E beat \in BreatherBeats : pending_beats' = Append(pending_beats, beat)
             /\ combats_since_rest' = 0
        ELSE pending_beats' = pending_beats]_vars

\* C4 witness: a victory has just taken the breather branch.
C4_Witness ==
    /\ lastOp.op = "on_combat_end"
    /\ WasVictory(lastOp)
    /\ combats_since_rest = 0
    /\ pending_beats # << >>
    /\ Last(pending_beats) \in BreatherBeats

\* C5: when on_combat_end takes the breather branch, the phase it leaves is
\* Resolution.
C5_BreatherLeavesResolution ==
    [][(lastOp'.op = "on_combat_end" /\ BreatherStep) => phase' = "Resolution"]_vars

\* C6: after an on_combat_end that does not take the breather branch, phase
\* is the bucket of the resulting tension: 0..20 Exploration, 21..50
\* RisingTension, 51..100 Confrontation.
C6_PhaseIsTensionBucket ==
    [][(lastOp'.op = "on_combat_end" /\ ~BreatherStep) =>
        /\ (tension' \in 0..20   => phase' = "Exploration")
        /\ (tension' \in 21..50  => phase' = "RisingTension")
        /\ (tension' \in 51..100 => phase' = "Confrontation")]_vars

\* C6 witness: a non-breather on_combat_end ended on the edge value 21 of the
\* second bucket.
C6_Witness ==
    /\ lastOp.op = "on_combat_end"
    /\ combats_since_rest > 0
    /\ tension = 21
    /\ phase = "RisingTension"

C8_CombatStart ==
    [][lastOp'.op = "on_combat_start" =>
        /\ tension' = Min(tension + (IF WasBoss(lastOp') THEN 30 ELSE 15), 100)
        /\ tension' > 0
        /\ phase' = "Confrontation"
        /\ UNCHANGED <<combats_since_rest, pending_beats>>]_vars

\* C8 witness: a boss combat started and the cap applied.
C8_Witness ==
    /\ lastOp = Call("on_combat_start", "boss", None)
    /\ tension = 100
    /\ phase = "Confrontation"

\* C9: on_rest zeroes combats_since_rest, lowers tension by 30 floored at 0,
\* sets phase to Resolution and enqueues exactly the rest beat, which is
\* what the next pop_beat returns.
C9_Rest ==
    [][/\ lastOp'.op = "on_rest" =>
            /\ combats_since_rest' = 0
            /\ tension' = Max(tension - 30, 0)
            /\ phase' = "Resolution"
            /\ pending_beats' = Append(pending_beats, RestBeat)
       /\ (lastOp.op = "on_rest" /\ lastOp'.op = "pop_beat") =>
            lastOp'.ret = RestBeat]_vars

\* C9 witness: a rest taken with tension below 30 and combats outstanding
\* floored the tension and queued the rest beat on top of another beat.
C9_Witness ==
    /\ lastOp.op = "on_rest"
    /\ tension = 0
    /\ combats_since_rest = 0
    /\ phase = "Resolution"
    /\ Len(pending_beats) = 2
    /\ Last(pending_beats) = RestBeat

\* C10: on_shop_enter sets phase to Interlude, lowers tension by 10 floored
\* at 0 and leaves combats_since_rest and the queue alone.
C10_ShopEnter ==
    [][lastOp'.op = "on_shop_enter" =>
        /\ phase' = "Interlude"
        /\ tension' = Max(tension - 10, 0)
        /\ UNCHANGED <<combats_since_rest, pending_beats>>]_vars

\* C10 witness: a shop entered with pending beats and combats outstanding.
C10_Witness ==
    /\ lastOp.op = "on_shop_enter"
    /\ phase = "Interlude"
    /\ tension = 5
    /\ combats_since_rest = 2
    /\ pending_beats # << >>

\* C11: reset, from any reachable state, leaves tension 0, combats_since_rest
\* 0, phase Exploration and an empty queue: the observable state of
\* PacingController::new.
C11_ResetIsNew ==
    [][lastOp'.op = "reset" =>
        /\ tension' = 0
        /\ combats_since_rest' = 0
        /\ phase' = "Exploration"
        /\ pending_beats' = << >>]_vars

\* C11 witness: a reset has just run (every reset lands in this one state;
\* it is taken from every reachable state, among them ones with tension,
\* combats and beats outstanding).
C11_Witness ==
    /\ lastOp.op = "reset"
    /\ tension = 0
    /\ combats_since_rest = 0
    /\ phase = "Exploration"
    /\ pending_beats = << >>

\* C12: on_room_enter enqueues at most one beat, and only when phase is
\* Exploration at the call; in any other phase the queue is unchanged; it
\* never changes phase or combats_since_rest.
C12_RoomEnterBeats ==
    [][lastOp'.op = "on_room_enter" =>
        /\ UNCHANGED <<phase, combats_since_rest>>
        /\ \/ pending_beats' = pending_beats
           \/ /\ phase = "Exploration"
              /\ Len(pending_beats') = Len(pending_beats) + 1
              /\ SubSeq(pending_beats', 1, Len(pending_beats)) = pending_beats]_vars

\* C12 witness: a room entered during Exploration with an atmospheric beat
\* of the floor's pool on top of the queue.
C12_Witness ==
    /\ lastOp.op = "on_room_enter"
    /\ phase = "Exploration"
    /\ pending_beats # << >>
    /\ Last(pending_beats) \in AtmosphericPool(11)

(***************************************************************************)
(* TypingImpact properties.                                                *)
(***************************************************************************)
RECURSIVE StrokeDamageSum(_, _)
\* The damage_this_stroke of keystrokes 1..n of ks, each as on_keystroke
\* computed it when the keystroke was the latest one, added up.
StrokeDamageSum(ks, n) ==
    IF n = 0 THEN RInt(0)
    ELSE RAdd(StrokeDamageSum(ks, n - 1),
              calculate_keystroke_impact(SubSeq(ks, 1, n), ks[n].correct,
                                         ks[n].interval_ms).damage_this_stroke)

\* C13: on_keystroke returns a strictly positive damage_this_stroke for a
\* correct keystroke and exactly 0 for an incorrect one, at any position of
\* the word and for any interval.
C13_KeystrokeDamageSign ==
    [][typingOp'.op = "on_keystroke" =>
        IF last_correct'
        THEN RLt(RInt(0), typingOp'.ret.damage_this_stroke)
        ELSE typingOp'.ret.damage_this_stroke = RInt(0)]_vars

\* C13 witness: a wrong key typed late in a word, after a long pause,
\* returned no damage.
C13_Witness ==
    /\ typingOp.op = "on_keystroke"
    /\ ~last_correct
    /\ Len(current_attack.keystrokes) = 3
    /\ Last(current_attack.keystrokes).interval_ms > 1000
    /\ typingOp.ret.damage_this_stroke = RInt(0)

\* C14: the attack category is the first match of: accuracy >= 0.99 and
\* wpm >= 80 Precision; accuracy >= 0.95 and wpm >= 100 Flurry; wpm < 40 and
\* accuracy >= 0.95 Deliberate; wpm >= 70 and accuracy < 0.85 Frantic;
\* otherwise Standard.  wpm 85 with accuracy 1.0 is Precision, and whatever
\* meets both the Precision and the Flurry condition is Precision.
C14_CategoryPrecedence ==
    typingOp.op = "determine_attack_type" =>
        LET w == typingOp.ret.wpm
            a == typingOp.ret.accuracy
            precision == RGe(a, R(99, 100)) /\ RGe(w, RInt(80))
            flurry == RGe(a, R(95, 100)) /\ RGe(w, RInt(100))
            deliberate == RLt(w, RInt(40)) /\ RGe(a, R(95, 100))
            frantic == RGe(w, RInt(70)) /\ RLt(a, R(85, 100))
        IN  /\ precision => attack_type = "Precision"
            /\ (~precision /\ flurry) => attack_type = "Flurry"
            /\ (~precision /\ ~flurry /\ deliberate) => attack_type = "Deliberate"
            /\ (~precision /\ ~flurry /\ ~deliberate /\ frantic) => attack_type = "Frantic"
            /\ (~precision /\ ~flurry /\ ~deliberate /\ ~frantic) => attack_type = "Standard"
            /\ (w = RInt(85) /\ a = RInt(1)) => attack_type = "Precision"
            /\ typingOp.ret.attack_type = attack_type

\* C14 witness: an input that meets the Precision and the Flurry condition
\* was classified Precision.
C14_Witness ==
    /\ typingOp.op = "determine_attack_type"
    /\ typingOp.ret.wpm = RInt(110)
    /\ typingOp.ret.accuracy = RInt(1)
    /\ attack_type = "Precision"

\* C15: complete_word returns damage >= 1 for every non-negative
\* base_damage and every keystroke history.
C15_DamageAtLeastOne ==
    typingOp.op = "complete_word" => typingOp.ret.damage >= 1

\* C15 witness: a word with no correct keystroke completed with
\* base_damage 0 dealt 1 damage.
C15_Witness ==
    /\ typingOp.op = "complete_word"
    /\ typingOp.base_damage = 0
    /\ current_attack.keystrokes # << >>
    /\ \A i \in DOMAIN current_attack.keystrokes : ~current_attack.keystrokes[i].correct
    /\ typingOp.ret.damage = 1

\* C16: once complete_word has returned, pending_damage is 0.
C16_CompleteDrainsPending ==
    typingOp.op = "complete_word" => pending_damage = RInt(0)

\* C17: start_word discards the unfinished sequence with no carry-over:
\* after it the keystrokes and the typed prefix are empty and pending_damage
\* is 0; the next keystroke has interval 0; and the damage of a complete_word
\* is made of base_damage and the keystrokes recorded since, nothing older.
C17_StartWordNoCarryOver ==
    [][/\ typingOp'.op = "start_word" =>
            /\ current_attack'.keystrokes = << >>
            /\ current_attack'.typed = << >>
            /\ pending_damage' = RInt(0)
       /\ (typingOp.op = "start_word" /\ typingOp'.op = "on_keystroke") =>
            Last(current_attack'.keystrokes).interval_ms = 0
       /\ typingOp'.op = "complete_word" =>
            LET ks == current_attack.keystrokes
                r == typingOp'.ret
                total == RAdd(RInt(typingOp'.base_damage), StrokeDamageSum(ks, Len(ks)))
                scaled == RMul(RMul(total, damage_multiplier(r.attack_type)),
                               RAdd(R(1, 2), RMul(r.accuracy, R(1, 2))))
            IN  /\ Len(ks) <= since_start.calls
                /\ r.damage = Max(RRound(scaled), 1)]_vars

\* C17 witness: after a start_word one key was typed and the word,
\* completed with base_damage 0, dealt that keystroke's 1.5 rounded.
C17_Witness ==
    /\ typingOp.op = "complete_word"
    /\ typingOp.base_damage = 0
    /\ since_start.started
    /\ since_start.calls = 1
    /\ Len(current_attack.keystrokes) = 1
    /\ current_attack.keystrokes[1].interval_ms = 0
    /\ pending_damage = R(3, 2)
    /\ typingOp.ret.damage = 2

Intervals(ks) == [i \in 1..Len(ks) |-> ks[i].interval_ms]
\* the multiplier 1.5 / 1.25 / 1.1 / 1.0 for a deviation of num/den ms
RhythmBand(num, den) ==
    IF num < 30 * den THEN R(3, 2)
    ELSE IF num < 60 * den THEN R(5, 4)
    ELSE IF num < 100 * den THEN R(11, 10)
    ELSE RInt(1)

\* C18 as claimed: for a correct keystroke rhythm_mult follows from
\* |current interval - mean of up to the last 3 non-zero intervals of the
\* word|, and is 1.0 with fewer than 2 such samples.
C18_RhythmFromLastNonZeroIntervals ==
    (typingOp.op = "on_keystroke" /\ typingOp.ret.correct) =>
        LET ks == current_attack.keystrokes
            cur == ks[Len(ks)].interval_ms
            nonzero == { i \in 1..Len(ks) : ks[i].interval_ms > 0 }
            samples == { i \in nonzero : Cardinality({ j \in nonzero : j > i }) < 3 }
            cnt == Cardinality(samples)
            sum == SumIntervals(ks, samples)
        IN  RAdd(typingOp.ret.rhythm_bonus, RInt(1)) =
                IF cnt < 2 THEN RInt(1) ELSE RhythmBand(Abs(cur * cnt - sum), cnt)

\* C18 amended: for a correct keystroke rhythm_mult follows from
\* |current interval - mean, truncated to a whole millisecond, of the
\* non-zero intervals among the last 3 keystrokes of the word, the current
\* one included|: < 30 ms 1.5, < 60 ms 1.25, < 100 ms 1.1, otherwise 1.0; it
\* is 1.0 when fewer than 2 such intervals exist or the current interval is
\* 0.  Intervals [0,150,150,150]: 1.0, 1.0, 1.5, 1.5.
C18_RhythmFromLastThreeKeystrokes ==
    (typingOp.op = "on_keystroke" /\ typingOp.ret.correct) =>
        LET ks == current_attack.keystrokes
            n == Len(ks)
            cur == ks[n].interval_ms
            samples == { i \in 1..n : i > n - 3 /\ ks[i].interval_ms > 0 }
            cnt == Cardinality(samples)
            mean == SumIntervals(ks, samples) \div cnt
            mult == RAdd(typingOp.ret.rhythm_bonus, RInt(1))
        IN  /\ mult = IF cnt < 2 \/ cur = 0 THEN RInt(1)
                      ELSE RhythmBand(Abs(cur - mean), 1)
            /\ Intervals(ks) \in {<<0>>, <<0, 150>>} => mult = RInt(1)
            /\ Intervals(ks) \in {<<0, 150, 150>>, <<0, 150, 150, 150>>} => mult = R(3, 2)

\* C18 witness: the fourth keystroke of a word typed with intervals
\* [0,150,150,150] got rhythm_mult 1.5.
C18_Witness ==
    /\ typingOp.op = "on_keystroke"
    /\ typingOp.ret.correct
    /\ Intervals(current_attack.keystrokes) = <<0, 150, 150, 150>>
    /\ typingOp.ret.rhythm_bonus = R(1, 2)

\* C19: for a correct keystroke speed_mult is 200/interval_ms clamped to
\* [0.5, 2.0] when interval_ms > 0 and 1.0 when it is 0 (sound_pitch is
\* 0.8 + 0.2 speed_mult), damage_this_stroke is 1.5 x speed_mult x
\* rhythm_mult, and so lies in [0.75, 4.5].
C19_SpeedAndDamage ==
    (typingOp.op = "on_keystroke" /\ typingOp.ret.correct) =>
        LET ks == current_attack.keystrokes
            i == ks[Len(ks)].interval_ms
            raw == R(200, Max(i, 1))
            speed == IF i = 0 THEN RInt(1)
                     ELSE IF RLt(raw, R(1, 2)) THEN R(1, 2)
                     ELSE IF RLt(RInt(2), raw) THEN RInt(2)
                     ELSE raw
            rhythm == RAdd(typingOp.ret.rhythm_bonus, RInt(1))
            damage == typingOp.ret.damage_this_stroke
        IN  /\ typingOp.ret.sound_pitch = RAdd(R(4, 5), RMul(R(1, 5), speed))
            /\ damage = RMul(R(3, 2), RMul(speed, rhythm))
            /\ RGe(damage, R(3, 4))
            /\ RGe(R(9, 2), damage)

\* C19 witness: a fast keystroke in steady rhythm dealt the maximum 4.5.
C19_Witness ==
    /\ typingOp.op = "on_keystroke"
    /\ typingOp.ret.correct
    /\ Last(current_attack.keystrokes).interval_ms = 71
    /\ typingOp.ret.damage_this_stroke = R(9, 2)

\* C20 as claimed: once start_word has been called, pending_damage is the
\* sum of damage_this_stroke over the on_keystroke calls made since the
\* latest start_word.
C20_PendingIsSumSinceStartWord ==
    since_start.started => pending_damage = since_start.damage

\* C20 amended: in every state pending_damage is the sum of
\* damage_this_stroke over the on_keystroke calls made since the latest
\* start_word or reset, which are the keystrokes current_attack records; an
\* incorrect keystroke leaves pending_damage unchanged.
C20_PendingIsSumSinceStartOrReset ==
    [][/\ pending_damage' = StrokeDamageSum(current_attack'.keystrokes,
                                            Len(current_attack'.keystrokes))
       /\ typingOp'.op \in {"start_word", "reset"} =>
            current_attack'.keystrokes = << >>
       /\ typingOp'.op = "on_keystroke" =>
            /\ Len(current_attack'.keystrokes) = Len(current_attack.keystrokes) + 1
            /\ ~last_correct' => pending_damage' = pending_damage
       /\ typingOp'.op = "complete_word" =>
            current_attack'.keystrokes = current_attack.keystrokes]_vars

\* C20 witness: after two damaging keystrokes a wrong one left the pending
\* damage where it was.
C20_Witness ==
    /\ typingOp.op = "on_keystroke"
    /\ ~last_correct
    /\ Len(current_attack.keystrokes) = 3
    /\ current_attack.keystrokes[1].correct
    /\ current_attack.keystrokes[2].correct
    /\ pending_damage = since_start.damage
    /\ RLt(RInt(2), pending_damage)

\* C21: complete_word never fails on degenerate input: with zero typed
\* characters the accuracy is 1.0, with zero elapsed time the wpm is 0, and
\* for every keystroke history the reported accuracy is
\* correct_count / typed_count (typed_count = number of characters typed)
\* and lies in [0, 1].
C21_AccuracyIsCorrectOverTyped ==
    typingOp.op = "complete_word" =>
        LET ks == current_attack.keystrokes
            typed_count == Len(current_attack.typed)
            correct_count == Cardinality({ i \in 1..Len(ks) : ks[i].correct })
            acc == typingOp.ret.accuracy
        IN  /\ (typed_count = 0 => acc = RInt(1))
            /\ (clock = 0 => typingOp.ret.wpm = RInt(0))
            /\ (typed_count > 0 => acc = R(correct_count, typed_count))
            /\ RGe(acc, RInt(0))
            /\ RGe(RInt(1), acc)

(***************************************************************************)
(* Dialogue engine: combat momentum of the enemy and of the player.        *)
(***************************************************************************)
\* Health percentages (i32) handed to the classifiers run from
\* -MaxOverkill to MaxPercent.
MaxOverkill == 20
MaxPercent == 120
\* Accuracies (f32) handed to from_health_and_accuracy, around its 0.95 edge.
Accuracies == { R(a, 1000) : a \in {0, 500, 949, 950, 951, 990, 1000} }

CombatMomentum == {"Fresh", "Bloodied", "Desperate", "Dying"}
PlayerMomentum == {"Dominant", "Confident", "Struggling", "Critical"}

\* CombatMomentum::from_health_percent: a match on inclusive ranges
from_health_percent(percent) ==
    IF percent \in 0..10 THEN "Dying"
    ELSE IF percent \in 11..30 THEN "Desperate"
    ELSE IF percent \in 31..70 THEN "Bloodied"
    ELSE "Fresh"

\* variant: the accuracy edge 0.95 itself counts as Dominant
from_health_and_accuracy_inclusive(health_percent, accuracy) ==
    IF health_percent < 25 THEN "Critical"
    ELSE IF health_percent < 50 THEN "Struggling"
    ELSE IF RGe(accuracy, R(95, 100)) THEN "Dominant"
    ELSE "Confident"

\* PlayerMomentum::from_health_and_accuracy: three early returns
from_health_and_accuracy(health_percent, accuracy) ==
    IF health_percent < 25 THEN "Critical"
    ELSE IF health_percent < 50 THEN "Struggling"
    ELSE IF RLt(R(95, 100), accuracy) THEN "Dominant"
    ELSE "Confident"

\* One call of each classifier, its arguments and result kept.
combat_momentum(percent) ==
    /\ momentum' = [fn |-> "from_health_percent",
                    percent |-> percent,
                    ret |-> from_health_percent(percent)]
    /\ UNCHANGED sentence

player_momentum(health_percent, accuracy) ==
    /\ momentum' = [fn |-> "from_health_and_accuracy",
                    health_percent |-> health_percent,
                    accuracy |-> accuracy,
                    ret |-> from_health_and_accuracy(health_percent, accuracy)]
    /\ UNCHANGED sentence

EnemyMomentum ==
    /\ momentum.fn = "none"
    /\ \E percent \in (-MaxOverkill)..MaxPercent : combat_momentum(percent)
    /\ UNCHANGED <<pacingVars, typingVars, enemyVars, avatarVars>>

PlayerMomentumOf ==
    /\ momentum.fn = "none"
    /\ \E health_percent \in (-MaxOverkill)..MaxPercent, accuracy \in Accuracies :
          player_momentum(health_percent, accuracy)
    /\ UNCHANGED <<pacingVars, typingVars, enemyVars, avatarVars>>

NextMomentum ==
    \/ EnemyMomentum
    \/ PlayerMomentumOf

SpecMomentum == Init /\ [][NextMomentum]_vars

(***************************************************************************)
(* Dialogue engine properties.                                             *)
(***************************************************************************)
\* C22: enemy momentum is a function of the health percentage alone that
\* maps every integer health percentage <= 10 to Dying, 11..30 to
\* Desperate, 31..70 to Bloodied and > 70 to Fresh.
C22_EnemyMomentumBuckets ==
    momentum.fn = "from_health_percent" =>
        momentum.ret = IF momentum.percent <= 10 THEN "Dying"
                       ELSE IF momentum.percent <= 30 THEN "Desperate"
                       ELSE IF momentum.percent <= 70 THEN "Bloodied"
                       ELSE "Fresh"

\* C23: player momentum is decided in this order: health% < 25 gives
\* Critical whatever the accuracy; else health% < 50 gives Struggling
\* whatever the accuracy; else accuracy > 0.95 gives Dominant; else
\* Confident.  Accuracy of exactly 0.95 yields Confident, and Dominant is
\* reached only with health% >= 50.
C23_PlayerMomentumOrder ==
    momentum.fn = "from_health_and_accuracy" =>
        LET h == momentum.health_percent
            a == momentum.accuracy
        IN  /\ (h < 25 => momentum.ret = "Critical")
            /\ (h >= 25 /\ h < 50 => momentum.ret = "Struggling")
            /\ (h >= 50 /\ RLt(R(95, 100), a) => momentum.ret = "Dominant")
            /\ (h >= 50 /\ ~RLt(R(95, 100), a) => momentum.ret = "Confident")
            /\ (h >= 50 /\ a = R(95, 100) => momentum.ret = "Confident")
            /\ (momentum.ret = "Dominant" => h >= 50)

\* from_health_and_accuracy(50, 0.95) returned Confident
C23_Witness ==
    /\ momentum.fn = "from_health_and_accuracy"
    /\ momentum.health_percent = 50
    /\ momentum.accuracy = R(95, 100)
    /\ momentum.ret = "Confident"

(***************************************************************************)
(* EnemyVisualState.                                                       *)
(***************************************************************************)
\* Most wounds explored on one visualizer between resets.
MaxWounds == 4
\* damage_pct handed to apply_damage: one per severity, three of them on a
\* threshold (0.08, 0.15, 0.25) and 0.30.
DamagePcts == { R(8, 100), R(15, 100), R(25, 100), R(30, 100) }
\* health_pct handed to update_from_health: the four thresholds (0.75,
\* 0.50, 0.25, 0.10) and one value inside each of the five bands.
HealthPcts == { R(100, 100), R(75, 100), R(60, 100), R(50, 100), R(30, 100),
                R(25, 100), R(15, 100), R(10, 100), R(5, 100) }
\* Cells gen_range draws for HitLocation::Random.
RandomCells == { [row |-> 0, col |-> 5], [row |-> 2, col |-> 0] }
\* Two draws of add_blood_particles, a count of 2 and a count of 4, each
\* particle an (offset_row, offset_col, blood character).
RollOfTwo ==
    << [offset_row |-> -1, offset_col |-> -2, ch |-> "middot"],
       [offset_row |-> 1, offset_col |-> 2, ch |-> "colon"] >>
RollOfFour ==
    << [offset_row |-> 0, offset_col |-> 1, ch |-> "bullet"],
       [offset_row |-> 0, offset_col |-> -1, ch |-> "dot"],
       [offset_row |-> 1, offset_col |-> 0, ch |-> "comma"],
       [offset_row |-> -1, offset_col |-> 2, ch |-> "middot"] >>

EnemyPosture == {"Confident", "Wary", "Staggered", "Wounded", "Dying"}
WoundSeverity == {"Scratch", "Cut", "Gash", "Critical"}
HitLocation == {"Head", "Torso", "LeftArm", "RightArm", "Legs", "Center", "Random"}

\* char::len_utf8 of the characters of the art: ' ' and '?' of the base
\* art, the wound glyphs cross (U+2573), slash, dash (U+2500) and middot
\* (U+00B7), the blood characters middot, colon, dot, comma and bullet
\* (U+2022).
char_len_utf8(ch) ==
    IF ch \in {"cross", "dash", "bullet"} THEN 3
    ELSE IF ch = "middot" THEN 2
    ELSE 1

RECURSIVE str_len(_)
\* String::len: bytes
str_len(row) ==
    IF row = << >> THEN 0 ELSE char_len_utf8(Head(row)) + str_len(Tail(row))

\* variant: the thresholds themselves count as the healthier posture
from_health_pct_inclusive(pct) ==
    IF RGe(pct, R(75, 100)) THEN "Confident"
    ELSE IF RGe(pct, R(50, 100)) THEN "Wary"
    ELSE IF RGe(pct, R(25, 100)) THEN "Staggered"
    ELSE IF RGe(pct, R(10, 100)) THEN "Wounded"
    ELSE "Dying"

\* EnemyPosture::from_health_pct
from_health_pct(pct) ==
    IF RLt(R(75, 100), pct) THEN "Confident"
    ELSE IF RLt(R(50, 100), pct) THEN "Wary"
    ELSE IF RLt(R(25, 100), pct) THEN "Staggered"
    ELSE IF RLt(R(10, 100), pct) THEN "Wounded"
    ELSE "Dying"

\* variant: the thresholds themselves count as the heavier wound
from_damage_pct_inclusive(pct) ==
    IF RGe(pct, R(25, 100)) THEN "Critical"
    ELSE IF RGe(pct, R(15, 100)) THEN "Gash"
    ELSE IF RGe(pct, R(8, 100)) THEN "Cut"
    ELSE "Scratch"

\* WoundSeverity::from_damage_pct
from_damage_pct(pct) ==
    IF RLt(R(25, 100), pct) THEN "Critical"
    ELSE IF RLt(R(15, 100), pct) THEN "Gash"
    ELSE IF RLt(R(8, 100), pct) THEN "Cut"
    ELSE "Scratch"

\* WoundSeverity::char
severity_char(severity) ==
    CASE severity = "Critical" -> "cross"
      [] severity = "Gash" -> "slash"
      [] severity = "Cut" -> "dash"
      [] severity = "Scratch" -> "middot"

\* WoundSeverity::value
severity_value(severity) ==
    CASE severity = "Critical" -> 4
      [] severity = "Gash" -> 3
      [] severity = "Cut" -> 2
      [] severity = "Scratch" -> 1

\* variant: the latest wound replaces the total
add_severity_latest(total, value) == value

\* total_severity += severity.value()
add_severity(total, value) == total + value

\* variant: every bucket starts one point early
update_posture_early(total) ==
    IF total \in 0..1 THEN "Confident"
    ELSE IF total \in 2..4 THEN "Wary"
    ELSE IF total \in 5..7 THEN "Staggered"
    ELSE IF total \in 8..11 THEN "Wounded"
    ELSE "Dying"

\* update_posture: the posture of a total severity
update_posture(total) ==
    IF total \in 0..2 THEN "Confident"
    ELSE IF total \in 3..5 THEN "Wary"
    ELSE IF total \in 6..8 THEN "Staggered"
    ELSE IF total \in 9..12 THEN "Wounded"
    ELSE "Dying"

\* get_hit_position; rnd is the cell the generator draws for Random.
\* height - 1 is taken on a non-empty base art only.
get_hit_position(location, rnd) ==
    LET height == Len(base_art)
        width == IF height > 0 THEN str_len(base_art[1]) ELSE 5
    IN  CASE location = "Head" -> [row |-> Min(0, height - 1), col |-> width \div 2]
          [] location = "Torso" -> [row |-> height \div 2, col |-> width \div 2]
          [] location = "LeftArm" -> [row |-> height \div 2, col |-> width \div 4]
          [] location = "RightArm" -> [row |-> height \div 2, col |-> (3 * width) \div 4]
          [] location = "Legs" -> [row |-> Min(height - 1, height - 1), col |-> width \div 2]
          [] location = "Center" -> [row |-> height \div 2, col |-> width \div 2]
          [] location = "Random" -> rnd

\* add_blood_particles: one particle per draw, offsets clamped at 0
add_blood_particles(ps, near, rolls) ==
    ps \o [ i \in 1..Len(rolls) |->
              [position |-> [row |-> Max(near.row + rolls[i].offset_row, 0),
                             col |-> Max(near.col + rolls[i].offset_col, 0)],
               char |-> rolls[i].ch] ]

RECURSIVE trim_end(_)
\* str::trim_end: trailing whitespace removed
trim_end(row) ==
    IF row = << >> THEN << >>
    ELSE IF row[Len(row)] = " " THEN trim_end(SubSeq(row, 1, Len(row) - 1))
    ELSE row

\* " ".repeat(n)
spaces(n) == [ i \in 1..n |-> " " ]

\* apply_posture_shift; row i of the code is art[i + 1]
apply_posture_shift(art, p) ==
    CASE p = "Confident" -> art
      [] p = "Wary" -> [ k \in 1..Len(art) |-> spaces(1) \o trim_end(art[k]) ]
      [] p = "Staggered" ->
            [ k \in 1..Len(art) |->
                IF (k - 1) % 2 = 0 THEN spaces(1) \o trim_end(art[k]) ELSE art[k] ]
      [] p = "Wounded" -> [ k \in 1..Len(art) |-> spaces(2) \o trim_end(art[k]) ]
      [] p = "Dying" ->
            LET half_len == Len(art) \div 2
            IN  [ k \in 1..Len(art) |->
                    spaces(Max((k - 1) - half_len, 0)) \o trim_end(art[k]) ]

\* char_at: art.get(row) and then row.chars().nth(col)
char_at(art, pos) ==
    IF pos.row < Len(art) /\ pos.col < Len(art[pos.row + 1])
    THEN art[pos.row + 1][pos.col + 1]
    ELSE None

\* apply_char_at: the column is tested against row.len(), the byte length,
\* and then used as an index into the row's characters; an index past the
\* last character is an out-of-bounds panic (fault).
apply_char_at(art, pos, ch) ==
    IF pos.row < Len(art)
    THEN LET row == art[pos.row + 1]
         IN  IF pos.col < str_len(row)
             THEN IF pos.col < Len(row)
                  THEN [fault |-> FALSE,
                        art |-> [art EXCEPT ![pos.row + 1][pos.col + 1] = ch]]
                  ELSE [fault |-> TRUE, art |-> art]
             ELSE [fault |-> FALSE, art |-> art]
    ELSE [fault |-> FALSE, art |-> art]

RECURSIVE apply_wounds(_, _)
\* the loop over damage_overlays.wounds of render
apply_wounds(res, ws) ==
    IF ws = << >> \/ res.fault THEN res
    ELSE apply_wounds(apply_char_at(res.art, Head(ws).position, Head(ws).char_override),
                      Tail(ws))

RECURSIVE apply_particles(_, _)
\* the loop over damage_overlays.particles of render: only on a space
apply_particles(res, ps) ==
    IF ps = << >> \/ res.fault THEN res
    ELSE apply_particles(IF char_at(res.art, Head(ps).position) = " "
                         THEN apply_char_at(res.art, Head(ps).position, Head(ps).char)
                         ELSE res,
                         Tail(ps))

\* What render computes when nothing is cached.
render_uncached(art, p, ws, ps) ==
    apply_particles(apply_wounds([fault |-> FALSE, art |-> apply_posture_shift(art, p)], ws), ps)

\* The record of a call: the fields as they were before it, and the
\* method of the call before it with the number of wounds that one found.
Visual(op, arg, ret) ==
    [op |-> op, arg |-> arg, ret |-> ret,
     before |-> [posture |-> posture,
                 cached |-> cached_render.some,
                 total_severity |-> total_severity,
                 wounds |-> Len(wounds),
                 particles |-> Len(particles)],
     prev |-> [op |-> visualOp.op, wounds |-> visualOp.before.wounds]]

\* variant: the cached grid survives the new wound
apply_damage_keeps_cache(damage_pct, location, rnd, rolls) ==
    LET severity == from_damage_pct(damage_pct)
        pos == get_hit_position(location, rnd)
    IN  /\ wounds' = Append(wounds, [position |-> pos,
                                     severity |-> severity,
                                     char_override |-> severity_char(severity)])
        /\ total_severity' = add_severity(total_severity, severity_value(severity))
        /\ particles' = IF severity # "Scratch"
                        THEN add_blood_particles(particles, pos, rolls)
                        ELSE particles
        /\ posture' = update_posture(total_severity')
        /\ visualOp' = Visual("apply_damage",
                              [damage_pct |-> damage_pct, location |-> location],
                              NoResult)
        /\ UNCHANGED <<base_art, cached_render>>

\* EnemyVisualState::apply_damage; rnd and rolls are what thread_rng gives
\* get_hit_position and add_blood_particles.
apply_damage(damage_pct, location, rnd, rolls) ==
    LET severity == from_damage_pct(damage_pct)
        pos == get_hit_position(location, rnd)
    IN  /\ wounds' = Append(wounds, [position |-> pos,
                                     severity |-> severity,
                                     char_override |-> severity_char(severity)])
        /\ total_severity' = add_severity(total_severity, severity_value(severity))
        \* severity as u8 >= WoundSeverity::Cut as u8
        /\ particles' = IF severity # "Scratch"
                        THEN add_blood_particles(particles, pos, rolls)
                        ELSE particles
        /\ posture' = update_posture(total_severity')
        /\ cached_render' = NoRender
        /\ visualOp' = Visual("apply_damage",
                              [damage_pct |-> damage_pct, location |-> location],
                              NoResult)
        /\ UNCHANGED base_art

\* EnemyVisualState::render
render ==
    IF cached_render.some
    THEN /\ visualOp' = Visual("render", NoResult,
                               [fault |-> FALSE, art |-> cached_render.art])
         /\ UNCHANGED <<base_art, wounds, particles, total_severity, posture, cached_render>>
    ELSE LET res == render_uncached(base_art, posture, wounds, particles)
         IN  /\ cached_render' = IF res.fault THEN cached_render
                                 ELSE [some |-> TRUE, art |-> res.art]
             /\ visualOp' = Visual("render", NoResult,
                                   IF res.fault THEN [fault |-> TRUE, art |-> << >>] ELSE res)
             /\ UNCHANGED <<base_art, wounds, particles, total_severity, posture>>

\* variant: the posture survives the reset
visual_reset_keeps_posture ==
    /\ wounds' = << >>
    /\ particles' = << >>
    /\ total_severity' = 0
    /\ cached_render' = NoRender
    /\ visualOp' = Visual("reset", NoResult, NoResult)
    /\ UNCHANGED <<base_art, posture>>

\* EnemyVisualState::reset
visual_reset ==
    /\ wounds' = << >>
    /\ particles' = << >>
    /\ total_severity' = 0
    /\ posture' = "Confident"
    /\ cached_render' = NoRender
    /\ visualOp' = Visual("reset", NoResult, NoResult)
    /\ UNCHANGED base_art

\* variant: the cache is dropped whether or not the posture changes
update_from_health_always_invalidates(health_pct) ==
    LET new_posture == from_health_pct(health_pct)
    IN  /\ posture' = new_posture
        /\ cached_render' = NoRender
        /\ visualOp' = Visual("update_from_health", [health_pct |-> health_pct], NoResult)
        /\ UNCHANGED <<base_art, wounds, particles, total_severity>>

\* EnemyVisualState::update_from_health
update_from_health(health_pct) ==
    LET new_posture == from_health_pct(health_pct)
    IN  /\ IF new_posture # posture
           THEN /\ posture' = new_posture
                /\ cached_render' = NoRender
           ELSE UNCHANGED <<posture, cached_render>>
        /\ visualOp' = Visual("update_from_health", [health_pct |-> health_pct], NoResult)
        /\ UNCHANGED <<base_art, wounds, particles, total_severity>>

\* A render that panicked ends the run of the visualizer.
Faulted == visualOp.op = "render" /\ visualOp.ret.fault

\* The visualizer's calls; the other objects are left alone.  Hits at the
\* torso, every severity, four blood particles for a Cut or worse.
ApplyDamage ==
    /\ ~Faulted
    /\ Len(wounds) < MaxWounds
    /\ \E damage_pct \in DamagePcts :
          apply_damage(damage_pct, "Torso", [row |-> 0, col |-> 0], RollOfFour)
    /\ UNCHANGED <<pacingVars, typingVars, dialogueVars, avatarVars>>
Render ==
    /\ ~Faulted
    /\ render
    /\ UNCHANGED <<pacingVars, typingVars, dialogueVars, avatarVars>>
VisualReset ==
    /\ ~Faulted
    /\ visual_reset
    /\ UNCHANGED <<pacingVars, typingVars, dialogueVars, avatarVars>>
UpdateFromHealth ==
    /\ ~Faulted
    /\ \E health_pct \in HealthPcts : update_from_health(health_pct)
    /\ UNCHANGED <<pacingVars, typingVars, dialogueVars, avatarVars>>

NextEnemy ==
    \/ ApplyDamage
    \/ UpdateFromHealth
    \/ Render
    \/ VisualReset

SpecEnemy == Init /\ [][NextEnemy]_vars

\* apply_damage and render alone, from a fresh visualizer.
NextDamage ==
    \/ ApplyDamage
    \/ Render

SpecDamage == Init /\ [][NextDamage]_vars

\* Critical hits at every hit location, two blood particles each, and render.
Strike ==
    /\ ~Faulted
    /\ Len(wounds) < MaxWounds
    /\ \E location \in HitLocation :
          \E rnd \in IF location = "Random" THEN RandomCells ELSE {[row |-> 0, col |-> 0]} :
             apply_damage(R(30, 100), location, rnd, RollOfTwo)
    /\ UNCHANGED <<pacingVars, typingVars, dialogueVars, avatarVars>>

NextRender ==
    \/ Strike
    \/ Render

SpecRender == Init /\ [][NextRender]_vars

(***************************************************************************)
(* EnemyVisualState properties.                                            *)
(***************************************************************************)
\* Confident < Wary < Staggered < Wounded < Dying
PostureRank(p) ==
    CASE p = "Confident" -> 0
      [] p = "Wary" -> 1
      [] p = "Staggered" -> 2
      [] p = "Wounded" -> 3
      [] p = "Dying" -> 4

\* C24: for any sequence of apply_damage calls with no reset, posture never
\* moves back toward Confident: the posture after each apply_damage is at
\* least the posture before it.
C24_DamageNeverLowersPosture ==
    visualOp.op = "apply_damage" =>
        PostureRank(posture) >= PostureRank(visualOp.before.posture)

\* an apply_damage took a Staggered enemy to Wounded
C24_Witness ==
    /\ visualOp.op = "apply_damage"
    /\ visualOp.before.posture = "Staggered"
    /\ posture = "Wounded"

\* C25: posture is monotonic non-decreasing until an explicit reset under
\* every interleaving of apply_damage and update_from_health: neither
\* operation ever moves posture back toward Confident.
C25_NoOperationLowersPosture ==
    visualOp.op \in {"apply_damage", "update_from_health"} =>
        PostureRank(posture) >= PostureRank(visualOp.before.posture)

\* The severity the thresholds give a damage percentage, and its value.
ThresholdSeverity(pct) ==
    IF RLt(R(25, 100), pct) THEN [name |-> "Critical", value |-> 4]
    ELSE IF RLt(R(15, 100), pct) THEN [name |-> "Gash", value |-> 3]
    ELSE IF RLt(R(8, 100), pct) THEN [name |-> "Cut", value |-> 2]
    ELSE [name |-> "Scratch", value |-> 1]

ValueOf(severity) ==
    CASE severity = "Critical" -> 4
      [] severity = "Gash" -> 3
      [] severity = "Cut" -> 2
      [] severity = "Scratch" -> 1

RECURSIVE SeveritySum(_)
SeveritySum(ws) ==
    IF ws = << >> THEN 0 ELSE ValueOf(Head(ws).severity) + SeveritySum(Tail(ws))

\* C26: each apply_damage appends exactly one WoundMarker whose severity is
\* Critical (4) for damage_pct > 25%, Gash (3) for > 15%, Cut (2) for > 8%
\* and Scratch (1) otherwise, and in every state total_severity equals the
\* sum of the severity values of all wounds recorded since the last reset.
C26_OneWoundPerDamage ==
    /\ visualOp.op = "apply_damage" =>
          /\ Len(wounds) = visualOp.before.wounds + 1
          /\ wounds[Len(wounds)].severity = ThresholdSeverity(visualOp.arg.damage_pct).name
          /\ total_severity = visualOp.before.total_severity
                                + ThresholdSeverity(visualOp.arg.damage_pct).value
    /\ total_severity = SeveritySum(wounds)

\* apply_damage(0.15, ..), on the Gash threshold, added a Cut to an enemy
\* that already had a wound
C26_Witness ==
    /\ visualOp.op = "apply_damage"
    /\ visualOp.arg.damage_pct = R(15, 100)
    /\ Len(wounds) = 2
    /\ wounds[2].severity = "Cut"
    /\ total_severity = visualOp.before.total_severity + 2

\* C27: immediately after every apply_damage, posture equals the bucket of
\* total_severity: 0..2 Confident, 3..5 Wary, 6..8 Staggered, 9..12 Wounded,
\* more than 12 Dying; apply_damage(0.30, Torso) twice on a fresh
\* visualizer gives total_severity 8 and posture Staggered.
C27_PostureIsSeverityBucket ==
    visualOp.op = "apply_damage" =>
        /\ posture = IF total_severity <= 2 THEN "Confident"
                     ELSE IF total_severity <= 5 THEN "Wary"
                     ELSE IF total_severity <= 8 THEN "Staggered"
                     ELSE IF total_severity <= 12 THEN "Wounded"
                     ELSE "Dying"
        /\ (/\ Len(wounds) = 2
            /\ visualOp.arg = [damage_pct |-> R(30, 100), location |-> "Torso"]
            /\ wounds[1].severity = "Critical"
            /\ wounds[1].position = wounds[2].position)
           => (total_severity = 8 /\ posture = "Staggered")

\* the second of two apply_damage(0.30, Torso) on a fresh visualizer
C27_Witness ==
    /\ visualOp.op = "apply_damage"
    /\ visualOp.arg = [damage_pct |-> R(30, 100), location |-> "Torso"]
    /\ Len(wounds) = 2
    /\ wounds[1].severity = "Critical"
    /\ total_severity = 8
    /\ posture = "Staggered"

\* C28: the render cache is invalidated exactly when new damage is
\* applied: every apply_damage empties the cache, and no other operation
\* (render, reset, update_from_health) empties it.
C28_OnlyDamageInvalidates ==
    /\ visualOp.op = "apply_damage" => ~cached_render.some
    /\ (visualOp.op \in {"render", "reset", "update_from_health"} /\ visualOp.before.cached)
          => cached_render.some

\* C28, as the code has it: every apply_damage and every reset leaves the
\* cache empty; update_from_health empties it exactly when it changes the
\* posture; render never empties it and leaves in it the grid it returned.
C28_InvalidatedOnDamageResetPostureChange ==
    /\ visualOp.op \in {"apply_damage", "reset"} => ~cached_render.some
    /\ visualOp.op = "update_from_health" =>
          (cached_render.some <=> (visualOp.before.cached /\ posture = visualOp.before.posture))
    /\ (visualOp.op = "render" /\ ~visualOp.ret.fault) =>
          (cached_render.some /\ cached_render.art = visualOp.ret.art)

\* an apply_damage found a rendered grid in the cache and emptied it
C28_Witness ==
    /\ visualOp.op = "apply_damage"
    /\ visualOp.before.cached
    /\ ~cached_render.some

\* C29: reset, from any reachable state, leaves no wounds, no particles,
\* total_severity 0 and posture Confident, and the next render() returns
\* the unmodified base art.
C29_ResetRestoresBaseArt ==
    /\ visualOp.op = "reset" =>
          /\ wounds = << >>
          /\ particles = << >>
          /\ total_severity = 0
          /\ posture = "Confident"
    /\ (visualOp.op = "render" /\ visualOp.prev.op = "reset") =>
          visualOp.ret = [fault |-> FALSE, art |-> base_art]

\* render right after the reset of a wounded enemy returned the base art
C29_Witness ==
    /\ visualOp.op = "render"
    /\ visualOp.prev.op = "reset"
    /\ visualOp.prev.wounds > 0
    /\ visualOp.ret.art = base_art

\* C30: render() never faults: a wound or particle whose recorded position
\* falls outside the bounds of the (posture-shifted) art is silently
\* skipped, after any sequence of apply_damage calls at any hit locations,
\* including positions in a row that already holds a wound glyph.
C30_RenderNeverFaults ==
    visualOp.op = "render" => ~visualOp.ret.fault

C36_CacheCoherence ==
    [][visualOp'.op = "render" =>
          /\ visualOp'.ret = render_uncached(base_art', posture', wounds', particles')
          /\ (visualOp.op = "render" => visualOp'.ret = visualOp.ret)]_vars

\* a render answered from the cache, for a wounded enemy whose posture
\* shifted the art
C36_Witness ==
    /\ visualOp.op = "render"
    /\ visualOp.prev.op = "render"
    /\ visualOp.before.cached
    /\ Len(wounds) > 1
    /\ Len(particles) > 0
    /\ posture = "Staggered"
    /\ visualOp.ret.art # base_art
    /\ ~visualOp.ret.fault

(***************************************************************************)
(* Further TypingImpact and PacingController properties.                   *)
(***************************************************************************)
\* C33: the damage figure embedded in WordCompletionResult.message equals
\* WordCompletionResult.damage (the value after flooring to a minimum of 1)
\* for every completed word.
C33_MessageDamageIsDamage ==
    typingOp.op = "complete_word" =>
        typingOp.ret.message.damage = typingOp.ret.damage

\* C34: keystrokes are recorded strictly in call order: the number of
\* recorded keystrokes equals the number of on_keystroke calls since the
\* last start_word, the first keystroke of a word has interval 0, and every
\* later keystroke's interval is the time elapsed since the immediately
\* preceding keystroke of the same word.
C34_KeystrokesSinceStartWord ==
    since_start.started =>
        LET ks == current_attack.keystrokes
        IN  /\ Len(ks) = since_start.calls
            /\ (Len(ks) > 0 => ks[1].interval_ms = 0)
            /\ \A i \in 2..Len(ks) :
                  /\ ks[i].timestamp >= ks[i - 1].timestamp
                  /\ ks[i].interval_ms =
                        (ks[i].timestamp - ks[i - 1].timestamp) \div TicksPerMs

\* C34 amended: the recorded keystrokes are the on_keystroke calls made
\* since the latest start_word or reset, in call order; the first of them
\* has interval 0 and every later one the whole milliseconds elapsed since
\* the keystroke recorded just before it.
C34_KeystrokesSinceStartOrReset ==
    [][/\ typingOp'.op = "on_keystroke" =>
            LET ks == current_attack.keystrokes
                ks1 == current_attack'.keystrokes
            IN  /\ Len(ks1) = Len(ks) + 1
                /\ SubSeq(ks1, 1, Len(ks)) = ks
                /\ ks1[Len(ks1)].timestamp = clock'
                /\ ks1[Len(ks1)].interval_ms =
                      IF ks = << >> THEN 0
                      ELSE (clock' - ks[Len(ks)].timestamp) \div TicksPerMs
                /\ current_attack'.typed =
                      Append(current_attack.typed, ks1[Len(ks1)].char)
       /\ typingOp'.op \in {"start_word", "reset"} =>
            current_attack'.keystrokes = << >>
       /\ typingOp'.op = "complete_word" =>
            current_attack'.keystrokes = current_attack.keystrokes]_vars

\* the first keystroke after a reset that followed typed keystrokes has
\* interval 0, the second the 150 ms since the first
C34_Witness ==
    /\ typingOp.op = "on_keystroke"
    /\ since_start.calls = 3
    /\ Len(current_attack.keystrokes) = 2
    /\ current_attack.keystrokes[1].interval_ms = 0
    /\ current_attack.keystrokes[2].interval_ms = 150

\* C35: immediately after any on_combat_end(victory=true) call,
\* combats_since_rest is 0, 1 or 2, whatever sequence of victories,
\* defeats, rests and other operations preceded it.
C35_VictoryLeavesAtMostTwo ==
    (lastOp.op = "on_combat_end" /\ WasVictory(lastOp)) =>
        combats_since_rest \in {0, 1, 2}

\* C37: a word classified as Flurry or Frantic is never perfect: every
\* WordCompletionResult with perfect == true (accuracy >= 0.99) has
\* category Precision, Deliberate or Standard.
C37_PerfectIsNeverFlurryOrFrantic ==
    /\ typingOp.op = "complete_word" =>
          /\ typingOp.ret.perfect <=> RGe(typingOp.ret.accuracy, R(99, 100))
          /\ typingOp.ret.perfect =>
                typingOp.ret.attack_type \in {"Precision", "Deliberate", "Standard"}
    /\ (typingOp.op = "determine_attack_type" /\ RGe(typingOp.ret.accuracy, R(99, 100))) =>
          typingOp.ret.attack_type \in {"Precision", "Deliberate", "Standard"}

\* a perfect word fast enough for Flurry (wpm >= 100) is a Precision strike
C37_Witness ==
    /\ typingOp.op = "complete_word"
    /\ typingOp.ret.perfect
    /\ RGe(typingOp.ret.wpm, RInt(100))
    /\ typingOp.ret.attack_type = "Precision"

\* a second victory in a row left combats_since_rest at 2
C35_Witness ==
    /\ lastOp.op = "on_combat_end"
    /\ WasVictory(lastOp)
    /\ combats_since_rest = 2
    /\ phase = "Exploration"

(***************************************************************************)
(* LoreWords::random_sentence (src/src/data/lore_words.rs).  A sentence is *)
(* the pool that lists it and its index there (no sentence is listed by    *)
(* two sentence pools); a name is the sequence of its words, and           *)
(* str::contains the search for a run of words.                            *)
(***************************************************************************)
\* Highest floor (u32, from 0) handed to random_sentence.
MaxFloor == 12
\* Boss names handed to random_sentence.
BossNames ==
    { <<"Hollow", "Knight">>,
      <<"The", "Hollow", "Knight", "Commander">>,
      <<"Void", "Herald">>,
      <<"Void", "Herald", "of", "the", "Hollow", "Knight">>,
      <<"hollow", "knight">>,
      <<"Goblin", "King">> }
\* Option<&str>
NoName == [some |-> FALSE, name |-> << >>]
SomeName(n) == [some |-> TRUE, name |-> n]

\* the sentence vectors: 8 per boss, 10 per zone, 5 per narrative stage
pool_size(pool) ==
    IF pool \in {"hollow_knight_sentences", "void_herald_sentences"} THEN 8
    ELSE IF pool \in {"early_narrative", "mid_narrative", "late_narrative"} THEN 5
    ELSE 10

sentences(pool) == { [pool |-> pool, idx |-> i] : i \in 1..pool_size(pool) }

\* str::contains
contains(name, pat) ==
    \E i \in 1..(Len(name) - Len(pat) + 1) : SubSeq(name, i, i + Len(pat) - 1) = pat

\* get_zone_sentences
get_zone_sentences(floor) ==
    IF floor \in 1..2 THEN sentences("shattered_halls_sentences")
    ELSE IF floor \in 3..4 THEN sentences("sunken_archives_sentences")
    ELSE IF floor \in 5..6 THEN sentences("blighted_gardens_sentences")
    ELSE IF floor \in 7..8 THEN sentences("clockwork_depths_sentences")
    ELSE IF floor \in 9..10 THEN sentences("voids_edge_sentences")
    ELSE sentences("the_breach_sentences")

\* get_narrative_sentences
get_narrative_sentences(floor) ==
    IF floor \in 1..3 THEN sentences("early_narrative")
    ELSE IF floor \in 4..7 THEN sentences("mid_narrative")
    ELSE sentences("late_narrative")

\* variant: a boss without an override draws from the mixed pool
boss_sentences_mixed(floor, name) ==
    IF contains(name, <<"Hollow", "Knight">>) THEN sentences("hollow_knight_sentences")
    ELSE IF contains(name, <<"Void", "Herald">>) THEN sentences("void_herald_sentences")
    ELSE get_zone_sentences(floor) \cup get_narrative_sentences(floor)

\* the match on the boss name of random_sentence
boss_sentences(floor, name) ==
    IF contains(name, <<"Hollow", "Knight">>) THEN sentences("hollow_knight_sentences")
    ELSE IF contains(name, <<"Void", "Herald">>) THEN sentences("void_herald_sentences")
    ELSE get_zone_sentences(floor)

\* random_sentence: choose draws any member of the pool; the unwrap_or_else
\* texts stand for an empty pool
random_sentence(floor, is_boss, boss_name) ==
    LET boss == is_boss /\ boss_name.some
        pool == IF boss THEN boss_sentences(floor, boss_name.name)
                ELSE get_zone_sentences(floor) \cup get_narrative_sentences(floor)
        drawn == IF pool # {} THEN pool
                 ELSE IF boss THEN {[pool |-> "Face your destiny.", idx |-> 0]}
                 ELSE {[pool |-> "The battle continues.", idx |-> 0]}
    IN  /\ \E s \in drawn :
              sentence' = [fn |-> "random_sentence", floor |-> floor,
                           is_boss |-> is_boss, boss_name |-> boss_name, ret |-> s]
        /\ UNCHANGED momentum

RandomSentence ==
    /\ sentence.fn = "none"
    /\ \E floor \in 0..MaxFloor, is_boss \in BOOLEAN,
          boss_name \in {NoName} \cup { SomeName(n) : n \in BossNames } :
          random_sentence(floor, is_boss, boss_name)
    /\ UNCHANGED <<pacingVars, typingVars, enemyVars, avatarVars>>

NextSentence == RandomSentence

SpecSentence == Init /\ [][NextSentence]_vars

\* C32: for a boss-flagged sentence request the name-keyed override pool is
\* checked first: a boss name matching an override (Hollow Knight, Void
\* Herald) draws only from that boss's pool, and any other boss name falls
\* back to the zone pool of the floor; the result is always a member of the
\* selected pool.
C32_BossOverrideFirst ==
    (sentence.fn = "random_sentence" /\ sentence.is_boss /\ sentence.boss_name.some) =>
        LET name == sentence.boss_name.name
            knight == contains(name, <<"Hollow", "Knight">>)
            herald == contains(name, <<"Void", "Herald">>)
            floor == sentence.floor
            zone == IF floor \in 1..2 THEN "shattered_halls_sentences"
                    ELSE IF floor \in 3..4 THEN "sunken_archives_sentences"
                    ELSE IF floor \in 5..6 THEN "blighted_gardens_sentences"
                    ELSE IF floor \in 7..8 THEN "clockwork_depths_sentences"
                    ELSE IF floor \in 9..10 THEN "voids_edge_sentences"
                    ELSE "the_breach_sentences"
        IN  /\ (knight /\ ~herald) => sentence.ret.pool = "hollow_knight_sentences"
            /\ (herald /\ ~knight) => sentence.ret.pool = "void_herald_sentences"
            /\ (knight /\ herald) =>
                  sentence.ret.pool \in {"hollow_knight_sentences", "void_herald_sentences"}
            /\ (~knight /\ ~herald) => sentence.ret.pool = zone
            /\ sentence.ret.idx \in 1..(IF knight \/ herald THEN 8 ELSE 10)

\* the boss "Goblin King" on floor 5 drew a Blighted Gardens sentence
C32_Witness ==
    /\ sentence.fn = "random_sentence"
    /\ sentence.is_boss
    /\ sentence.boss_name = SomeName(<<"Goblin", "King">>)
    /\ sentence.floor = 5
    /\ sentence.ret.pool = "blighted_gardens_sentences"

(***************************************************************************)
(* PlayerAvatar (src/src/game/player_avatar.rs).                           *)
(* AvatarState is a string; animation_timer and health_percent are u32.    *)
(* avatarOp records the latest call: the method, its argument, the timer   *)
(* before it, and how many animation triggers have been called so far.     *)
(***************************************************************************)
MaxTriggers == 3

AvatarState == {"Idle", "Typing", "Attacking", "Hit", "Victory", "Wounded", "Defending"}

Triggers == {"on_keystroke", "on_attack", "on_hit", "on_victory", "on_defend"}

\* percent arguments of update_health, on both sides of the 25 threshold
HealthPercents == {0, 24, 25, 80}

\* delta_ms arguments of update
PositiveDeltas == {50, 100, 1000}

saturating_sub_or_keep(a, b) == IF a > b THEN a - b ELSE a

\* u32::saturating_sub
saturating_sub(a, b) == IF a > b THEN a - b ELSE 0

\* the record a trigger leaves in avatarOp
Triggered(name) ==
    [op |-> name, arg |-> 0, timer_before |-> animation_timer,
     triggers |-> avatarOp.triggers + 1]

avatar_on_keystroke_no_timer ==
    /\ avatar_state' = "Typing"
    /\ animation_timer' = 0
    /\ avatarOp' = Triggered("on_keystroke")
    /\ UNCHANGED avatar_health_percent

\* PlayerAvatar::on_keystroke
avatar_on_keystroke ==
    /\ avatar_state' = "Typing"
    /\ animation_timer' = 100
    /\ avatarOp' = Triggered("on_keystroke")
    /\ UNCHANGED avatar_health_percent

\* PlayerAvatar::on_attack
avatar_on_attack ==
    /\ avatar_state' = "Attacking"
    /\ animation_timer' = 300
    /\ avatarOp' = Triggered("on_attack")
    /\ UNCHANGED avatar_health_percent

\* PlayerAvatar::on_hit
avatar_on_hit ==
    /\ avatar_state' = "Hit"
    /\ animation_timer' = 400
    /\ avatarOp' = Triggered("on_hit")
    /\ UNCHANGED avatar_health_percent

\* PlayerAvatar::on_victory
avatar_on_victory ==
    /\ avatar_state' = "Victory"
    /\ animation_timer' = 1000
    /\ avatarOp' = Triggered("on_victory")
    /\ UNCHANGED avatar_health_percent

\* PlayerAvatar::on_defend
avatar_on_defend ==
    /\ avatar_state' = "Defending"
    /\ animation_timer' = 500
    /\ avatarOp' = Triggered("on_defend")
    /\ UNCHANGED avatar_health_percent

\* PlayerAvatar::update_health
avatar_update_health(percent) ==
    /\ avatar_health_percent' = percent
    /\ avatar_state' = IF percent < 25 /\ avatar_state = "Idle" THEN "Wounded"
                       ELSE avatar_state
    /\ avatarOp' = [op |-> "update_health", arg |-> percent,
                    timer_before |-> animation_timer, triggers |-> avatarOp.triggers]
    /\ UNCHANGED animation_timer

\* the state update gives an avatar whose animation has just ended
settled_state(health) == IF health < 25 THEN "Wounded" ELSE "Idle"

\* PlayerAvatar::update
avatar_update(delta_ms) ==
    /\ IF animation_timer > 0
       THEN /\ animation_timer' = saturating_sub(animation_timer, delta_ms)
            /\ avatar_state' = IF animation_timer' = 0
                               THEN settled_state(avatar_health_percent)
                               ELSE avatar_state
       ELSE UNCHANGED <<animation_timer, avatar_state>>
    /\ avatarOp' = [op |-> "update", arg |-> delta_ms,
                    timer_before |-> animation_timer, triggers |-> avatarOp.triggers]
    /\ UNCHANGED avatar_health_percent

OnKeystroke ==
    /\ avatarOp.triggers < MaxTriggers
    /\ avatar_on_keystroke
    /\ UNCHANGED <<pacingVars, typingVars, dialogueVars, enemyVars>>

OnAttack ==
    /\ avatarOp.triggers < MaxTriggers
    /\ avatar_on_attack
    /\ UNCHANGED <<pacingVars, typingVars, dialogueVars, enemyVars>>

OnHit ==
    /\ avatarOp.triggers < MaxTriggers
    /\ avatar_on_hit
    /\ UNCHANGED <<pacingVars, typingVars, dialogueVars, enemyVars>>

OnVictory ==
    /\ avatarOp.triggers < MaxTriggers
    /\ avatar_on_victory
    /\ UNCHANGED <<pacingVars, typingVars, dialogueVars, enemyVars>>

OnDefend ==
    /\ avatarOp.triggers < MaxTriggers
    /\ avatar_on_defend
    /\ UNCHANGED <<pacingVars, typingVars, dialogueVars, enemyVars>>

UpdateHealth ==
    /\ \E percent \in HealthPercents : avatar_update_health(percent)
    /\ UNCHANGED <<pacingVars, typingVars, dialogueVars, enemyVars>>

\* update(delta_ms) with delta_ms > 0: a frame in which time has passed
AvatarTick ==
    /\ \E delta_ms \in PositiveDeltas : avatar_update(delta_ms)
    /\ UNCHANGED <<pacingVars, typingVars, dialogueVars, enemyVars>>

\* update(0)
AvatarStall ==
    /\ avatar_update(0)
    /\ UNCHANGED <<pacingVars, typingVars, dialogueVars, enemyVars>>

NextAvatar ==
    \/ OnKeystroke
    \/ OnAttack
    \/ OnHit
    \/ OnVictory
    \/ OnDefend
    \/ UpdateHealth
    \/ AvatarTick
    \/ AvatarStall

SpecAvatar == Init /\ [][NextAvatar]_vars

\* The game loop keeps calling update with the time elapsed since the last
\* frame: a frame in which time passes is always possible and keeps happening.
SpecAvatarLive == Init /\ [][NextAvatar]_vars /\ WF_vars(AvatarTick)

\* C38: whenever the avatar is not animating (animation_timer = 0) its state
\* is Idle or Wounded, after any sequence of triggers, update_health and
\* update calls.
C38_RestingIsIdleOrWounded ==
    animation_timer = 0 => avatar_state \in {"Idle", "Wounded"}

\* an update has just ended an animation and left the avatar Idle
C38_Witness ==
    /\ avatarOp.op = "update"
    /\ avatarOp.timer_before > 0
    /\ animation_timer = 0
    /\ avatar_state = "Idle"

\* C39: in every reachable avatar state, state = Wounded implies
\* health_percent < 25.
C39_WoundedImpliesLowHealth ==
    avatar_state = "Wounded" => avatar_health_percent < 25

\* C40: every animation ends: after any trigger, if update keeps being called
\* with delta_ms > 0 and no further trigger occurs, animation_timer eventually
\* reaches 0, and at the step that brings it to 0 the state becomes Wounded
\* when health_percent < 25 and Idle otherwise.
C40_EveryAnimationEnds ==
    /\ \A k \in 0..MaxTriggers :
          (animation_timer > 0 /\ avatarOp.triggers = k)
              ~> (animation_timer = 0 \/ avatarOp.triggers > k)
    /\ [][(animation_timer > 0 /\ animation_timer' = 0) =>
             avatar_state' = (IF avatar_health_percent' < 25 THEN "Wounded"
                              ELSE "Idle")]_vars

\* an update has just ended an animation of an avatar below 25% health
C40_Witness ==
    /\ avatarOp.op = "update"
    /\ avatarOp.arg > 0
    /\ avatarOp.timer_before > 0
    /\ avatarOp.triggers > 0
    /\ animation_timer = 0
    /\ avatar_health_percent < 25
    /\ avatar_state = "Wounded"

====
